---- MODULE Spec2Model ----
(***************************************************************************)
(* Model of text_cleaning/markers.rs: the Marker enumeration, the label    *)
(* lookup Marker::string_marker and the enumeration stub                   *)
(* Marker::all_markers.                                                    *)
(*                                                                         *)
(* A Rust string is modelled as the sequence of its characters, each a     *)
(* one-character TLA+ string, so that lengths, prefixes and character      *)
(* classes of the labels can be computed.                                  *)
(*                                                                         *)
(* Two specifications:                                                     *)
(*   Spec      one caller issuing calls one after another; every call and  *)
(*             its result is appended to the log `calls`.                  *)
(*   SpecConc  NumCallers callers, each executing a call step by step      *)
(*             (bind self, select the match arm, convert the literal,      *)
(*             return), interleaved arbitrarily.                           *)
(***************************************************************************)
EXTENDS Naturals, Sequences, FiniteSets

VARIABLES calls, pc, self, lit, ret

vars == <<calls, pc, self, lit, ret>>

(* Bounds *)
MaxCalls ==
  2
NumCallers ==
  2

Callers == 1..NumCallers

(***************************************************************************)
(* pub enum Marker { ... }                                                 *)
(***************************************************************************)
MarkerVariantsUnlisted ==
  << "Attachment", "ClassName", "CloudInstanceSpec", "Date",
     "FilePath", "FormattedLogging", "FormattedTraceback", "GithubLink",
     "ImageAttachment", "InlineCode", "IssueLink", "IPAddress",
     "Log", "MethodOrVariableName", "NoFormatBlock", "PackageName",
     "SimpleClassName", "SimpleMethodOrVariableName", "StorageSize", "StructuredCodeBlock",
     "TechnologyName", "Traceback", "UnformattedLog", "UnformattedTraceback",
     "UserProfileLink", "VersionNumber" >>

MarkerVariants ==
  << "Attachment", "ClassName", "CloudInstanceSpec", "Date",
     "FilePath", "FormattedLogging", "FormattedTraceback", "GithubLink",
     "ImageAttachment", "InlineCode", "IssueLink", "IPAddress",
     "Log", "MethodOrVariableName", "NoFormatBlock", "PackageName",
     "SimpleClassName", "SimpleMethodOrVariableName", "StorageSize", "StructuredCodeBlock",
     "TechnologyName", "Traceback", "UnformattedLog", "UnformattedTraceback",
     "UserProfileLink", "VersionNumber", "WebLink" >>

Marker == { MarkerVariants[i] : i \in DOMAIN MarkerVariants }

(***************************************************************************)
(* The arms of `match self { ... }` in string_marker, in source order.     *)
(* A pattern is a variant name; "_" stands for a wildcard arm.             *)
(***************************************************************************)
Arm(p, l) == [pat |-> p, str |-> l]

MatchArmsWildcard ==
  << Arm("Attachment", <<"A", "T", "T", "A", "C", "H", "M", "E", "N", "T">>),
     Arm("ClassName", <<"C", "L", "A", "S", "S", "N", "A", "M", "E">>),
     Arm("CloudInstanceSpec", <<"C", "L", "O", "U", "D", "I", "N", "S", "T", "A", "N", "C", "E">>),
     Arm("Date", <<"D", "A", "T", "E">>),
     Arm("FilePath", <<"F", "I", "L", "E", "P", "A", "T", "H">>),
     Arm("FormattedLogging", <<"F", "O", "R", "M", "A", "T", "T", "E", "D", "L", "O", "G", "G", "I", "N", "G", "O", "U", "T", "P", "U", "T">>),
     Arm("FormattedTraceback", <<"F", "O", "R", "M", "A", "T", "T", "E", "D", "T", "R", "A", "C", "E", "B", "A", "C", "K">>),
     Arm("GithubLink", <<"G", "I", "T", "H", "U", "B", "L", "I", "N", "K">>),
     Arm("ImageAttachment", <<"I", "M", "A", "G", "E", "A", "T", "T", "A", "C", "H", "M", "E", "N", "T">>),
     Arm("InlineCode", <<"I", "N", "L", "I", "N", "E", "C", "O", "D", "E", "S", "A", "M", "P", "L", "E">>),
     Arm("IssueLink", <<"I", "S", "S", "U", "E", "L", "I", "N", "K">>),
     Arm("IPAddress", <<"I", "P", " ", "A", "D", "D", "R", "E", "S", "S">>),
     Arm("Log", <<"L", "L", "L", "O", "G">>),
     Arm("MethodOrVariableName", <<"M", "E", "T", "H", "O", "D", "O", "R", "V", "A", "R", "I", "A", "B", "L", "E", "N", "A", "M", "E">>),
     Arm("NoFormatBlock", <<"N", "O", "F", "O", "R", "M", "A", "T", "B", "L", "O", "C", "K">>),
     Arm("PackageName", <<"P", "A", "C", "K", "A", "G", "E">>),
     Arm("SimpleClassName", <<"S", "I", "M", "P", "L", "E", "C", "L", "A", "S", "S", "N", "A", "M", "E">>),
     Arm("SimpleMethodOrVariableName", <<"S", "I", "M", "P", "L", "E", "M", "E", "T", "H", "O", "D", "O", "R", "V", "A", "R", "I", "A", "B", "L", "E", "N", "A", "M", "E">>),
     Arm("StorageSize", <<"S", "T", "O", "R", "A", "G", "E", "S", "I", "Z", "E">>),
     Arm("StructuredCodeBlock", <<"S", "T", "R", "U", "C", "T", "U", "R", "E", "D", "C", "O", "D", "E", "B", "L", "O", "C", "K">>),
     Arm("TechnologyName", <<"T", "E", "C", "H", "N", "O", "L", "O", "G", "Y", "N", "A", "M", "E", "S">>),
     Arm("Traceback", <<"T", "T", "T", "R", "A", "C", "E", "B", "A", "C", "K">>),
     Arm("UnformattedLog", <<"U", "N", "F", "O", "R", "M", "A", "T", "T", "E", "D", "L", "O", "G", "G", "I", "N", "G", "O", "U", "T", "P", "U", "T">>),
     Arm("UnformattedTraceback", <<"U", "N", "F", "O", "R", "M", "A", "T", "T", "E", "D", "T", "R", "A", "C", "E", "B", "A", "C", "K">>),
     Arm("UserProfileLink", <<"U", "S", "E", "R", "P", "R", "O", "F", "I", "L", "E", "L", "I", "N", "K">>),
     Arm("VersionNumber", <<"V", "E", "R", "S", "I", "O", "N", "N", "U", "M", "B", "E", "R">>),
     Arm("_", <<"W", "E", "B", "L", "I", "N", "K">>) >>

MatchArms ==
  << Arm("Attachment", <<"A", "T", "T", "A", "C", "H", "M", "E", "N", "T">>),
     Arm("ClassName", <<"C", "L", "A", "S", "S", "N", "A", "M", "E">>),
     Arm("CloudInstanceSpec", <<"C", "L", "O", "U", "D", "I", "N", "S", "T", "A", "N", "C", "E">>),
     Arm("Date", <<"D", "A", "T", "E">>),
     Arm("FilePath", <<"F", "I", "L", "E", "P", "A", "T", "H">>),
     Arm("FormattedLogging", <<"F", "O", "R", "M", "A", "T", "T", "E", "D", "L", "O", "G", "G", "I", "N", "G", "O", "U", "T", "P", "U", "T">>),
     Arm("FormattedTraceback", <<"F", "O", "R", "M", "A", "T", "T", "E", "D", "T", "R", "A", "C", "E", "B", "A", "C", "K">>),
     Arm("GithubLink", <<"G", "I", "T", "H", "U", "B", "L", "I", "N", "K">>),
     Arm("ImageAttachment", <<"I", "M", "A", "G", "E", "A", "T", "T", "A", "C", "H", "M", "E", "N", "T">>),
     Arm("InlineCode", <<"I", "N", "L", "I", "N", "E", "C", "O", "D", "E", "S", "A", "M", "P", "L", "E">>),
     Arm("IssueLink", <<"I", "S", "S", "U", "E", "L", "I", "N", "K">>),
     Arm("IPAddress", <<"I", "P", " ", "A", "D", "D", "R", "E", "S", "S">>),
     Arm("Log", <<"L", "L", "L", "O", "G">>),
     Arm("MethodOrVariableName", <<"M", "E", "T", "H", "O", "D", "O", "R", "V", "A", "R", "I", "A", "B", "L", "E", "N", "A", "M", "E">>),
     Arm("NoFormatBlock", <<"N", "O", "F", "O", "R", "M", "A", "T", "B", "L", "O", "C", "K">>),
     Arm("PackageName", <<"P", "A", "C", "K", "A", "G", "E">>),
     Arm("SimpleClassName", <<"S", "I", "M", "P", "L", "E", "C", "L", "A", "S", "S", "N", "A", "M", "E">>),
     Arm("SimpleMethodOrVariableName", <<"S", "I", "M", "P", "L", "E", "M", "E", "T", "H", "O", "D", "O", "R", "V", "A", "R", "I", "A", "B", "L", "E", "N", "A", "M", "E">>),
     Arm("StorageSize", <<"S", "T", "O", "R", "A", "G", "E", "S", "I", "Z", "E">>),
     Arm("StructuredCodeBlock", <<"S", "T", "R", "U", "C", "T", "U", "R", "E", "D", "C", "O", "D", "E", "B", "L", "O", "C", "K">>),
     Arm("TechnologyName", <<"T", "E", "C", "H", "N", "O", "L", "O", "G", "Y", "N", "A", "M", "E", "S">>),
     Arm("Traceback", <<"T", "T", "T", "R", "A", "C", "E", "B", "A", "C", "K">>),
     Arm("UnformattedLog", <<"U", "N", "F", "O", "R", "M", "A", "T", "T", "E", "D", "L", "O", "G", "G", "I", "N", "G", "O", "U", "T", "P", "U", "T">>),
     Arm("UnformattedTraceback", <<"U", "N", "F", "O", "R", "M", "A", "T", "T", "E", "D", "T", "R", "A", "C", "E", "B", "A", "C", "K">>),
     Arm("UserProfileLink", <<"U", "S", "E", "R", "P", "R", "O", "F", "I", "L", "E", "L", "I", "N", "K">>),
     Arm("VersionNumber", <<"V", "E", "R", "S", "I", "O", "N", "N", "U", "M", "B", "E", "R">>),
     Arm("WebLink", <<"W", "E", "B", "L", "I", "N", "K">>) >>

ArmMatches(arm, v) == arm.pat = "_" \/ arm.pat = v

(* Index of the arm a match on v selects: the first arm whose pattern matches. *)
match_arm(v) ==
  CHOOSE i \in DOMAIN MatchArms :
    /\ ArmMatches(MatchArms[i], v)
    /\ \A j \in DOMAIN MatchArms : j < i => ~ArmMatches(MatchArms[j], v)

(* The &'static str the match expression evaluates to. *)
match_self(v) == MatchArms[match_arm(v)].str

(* <&str as Into<String>>::into: a fresh String holding a copy of every    *)
(* character of the literal, in order.                                     *)
into(s) == [i \in 1..Len(s) |-> s[i]]

(* ---- variants of string_marker with a defect, used to test the theorems ---- *)
string_marker_empty_arm(v) ==
  IF v = "Date" THEN <<>> ELSE into(match_self(v))

StripSpaces(s) == SelectSeq(s, LAMBDA c : c # " ")

string_marker_normalized(v) == into(StripSpaces(match_self(v)))

string_marker_copy_paste(v) ==
  IF v = "SimpleClassName" THEN into(match_self("ClassName")) ELSE into(match_self(v))

string_marker_truncated(v) ==
  IF v = "FormattedLogging" THEN into(SubSeq(match_self(v), 1, 9)) ELSE into(match_self(v))

string_marker_mixed_case(v) ==
  IF v = "GithubLink" THEN <<"G", "i", "t", "h", "u", "b", "L", "I", "N", "K">>
  ELSE into(match_self(v))

(* pub fn string_marker(&self) -> String *)
string_marker(v) == into(match_self(v))

all_markers_enumerated == MarkerVariants

(* pub fn all_markers() -> Vec<Marker> { vec![] } *)
all_markers == << >>

(***************************************************************************)
(* State                                                                   *)
(***************************************************************************)
NoValue == << >>

Init ==
  /\ calls = << >>
  /\ pc = [p \in Callers |-> "idle"]
  /\ self = [p \in Callers |-> "none"]
  /\ lit = [p \in Callers |-> NoValue]
  /\ ret = [p \in Callers |-> NoValue]

(***************************************************************************)
(* Sequential caller: one whole call per step, logged with its result.     *)
(***************************************************************************)
CallStringMarker(v) ==
  /\ Len(calls) < MaxCalls
  /\ calls' = Append(calls, [op |-> "string_marker", arg |-> v, ret |-> string_marker(v)])
  /\ UNCHANGED <<pc, self, lit, ret>>

CallAllMarkers ==
  /\ Len(calls) < MaxCalls
  /\ calls' = Append(calls, [op |-> "all_markers", arg |-> "none", ret |-> all_markers])
  /\ UNCHANGED <<pc, self, lit, ret>>

Next ==
  \/ \E v \in Marker : CallStringMarker(v)
  \/ CallAllMarkers

Spec == Init /\ [][Next]_vars

(***************************************************************************)
(* Concurrent callers: each call is split into the steps the code takes.   *)
(* All of a call's data (self, the selected literal, the returned value)   *)
(* is local to the caller.                                                 *)
(***************************************************************************)
(* caller p invokes v.string_marker(): binds &self *)
EnterStringMarker(p, v) ==
  /\ pc[p] = "idle"
  /\ pc' = [pc EXCEPT ![p] = "sm_match"]
  /\ self' = [self EXCEPT ![p] = v]
  /\ UNCHANGED <<calls, lit, ret>>

(* match self { ... } evaluates to the selected arm's literal *)
MatchSelf(p) ==
  /\ pc[p] = "sm_match"
  /\ lit' = [lit EXCEPT ![p] = match_self(self[p])]
  /\ pc' = [pc EXCEPT ![p] = "sm_into"]
  /\ UNCHANGED <<calls, self, ret>>

(* variant of IntoString converting through a scratch value shared by the callers *)
IntoStringShared(p) ==
  /\ pc[p] = "sm_into"
  /\ LET q == CHOOSE c \in Callers :
                /\ pc[c] = "sm_into"
                /\ \A d \in Callers : pc[d] = "sm_into" => c <= d
     IN  ret' = [ret EXCEPT ![p] = into(lit[q])]
  /\ pc' = [pc EXCEPT ![p] = "sm_done"]
  /\ UNCHANGED <<calls, self, lit>>

(* .into() builds the returned String *)
IntoString(p) ==
  /\ pc[p] = "sm_into"
  /\ ret' = [ret EXCEPT ![p] = into(lit[p])]
  /\ pc' = [pc EXCEPT ![p] = "sm_done"]
  /\ UNCHANGED <<calls, self, lit>>

(* caller p invokes Marker::all_markers() *)
EnterAllMarkers(p) ==
  /\ pc[p] = "idle"
  /\ pc' = [pc EXCEPT ![p] = "am_vec"]
  /\ UNCHANGED <<calls, self, lit, ret>>

(* vec![] *)
VecNew(p) ==
  /\ pc[p] = "am_vec"
  /\ ret' = [ret EXCEPT ![p] = all_markers]
  /\ pc' = [pc EXCEPT ![p] = "am_done"]
  /\ UNCHANGED <<calls, self, lit>>

(* the caller takes the result; the call's frame is gone *)
Return(p) ==
  /\ pc[p] \in {"sm_done", "am_done"}
  /\ pc' = [pc EXCEPT ![p] = "idle"]
  /\ self' = [self EXCEPT ![p] = "none"]
  /\ lit' = [lit EXCEPT ![p] = NoValue]
  /\ ret' = [ret EXCEPT ![p] = NoValue]
  /\ UNCHANGED calls

NextConc ==
  \/ \E p \in Callers, v \in Marker : EnterStringMarker(p, v)
  \/ \E p \in Callers : MatchSelf(p)
  \/ \E p \in Callers : IntoString(p)
  \/ \E p \in Callers : EnterAllMarkers(p)
  \/ \E p \in Callers : VecNew(p)
  \/ \E p \in Callers : Return(p)

SpecConc == Init /\ [][NextConc]_vars

(***************************************************************************)
(* Properties                                                              *)
(***************************************************************************)
UpperLetters ==
  {"A", "B", "C", "D", "E", "F", "G", "H", "I", "J", "K", "L", "M",
   "N", "O", "P", "Q", "R", "S", "T", "U", "V", "W", "X", "Y", "Z"}

(* a single contiguous token of uppercase letters A-Z *)
IsUpperToken(s) == Len(s) > 0 /\ \A i \in 1..Len(s) : s[i] \in UpperLetters

HasSpace(s) == \E i \in 1..Len(s) : s[i] = " "

IsProperPrefix(s, u) == Len(s) < Len(u) /\ \A i \in 1..Len(s) : s[i] = u[i]

IsProperSuffix(s, u) ==
  Len(s) < Len(u) /\ \A i \in 1..Len(s) : s[i] = u[Len(u) - Len(s) + i]

StringMarkerCalls == { i \in DOMAIN calls : calls[i].op = "string_marker" }

AllMarkersCalls == { i \in DOMAIN calls : calls[i].op = "all_markers" }

Logged(v, s) == \E i \in StringMarkerCalls : calls[i].arg = v /\ calls[i].ret = s

(* each property over the whole enumeration is a constant of the model *)
AllLabelsNonEmpty == \A v \in Marker : Len(string_marker(v)) > 0

AllLabelsDistinct == \A a, b \in Marker : a # b => string_marker(a) # string_marker(b)

NoLabelPrefixesAnother ==
  \A a, b \in Marker : a # b => ~IsProperPrefix(string_marker(a), string_marker(b))

ArmPatterns == { MatchArms[i].pat : i \in DOMAIN MatchArms }

EachVariantSelectsItsArm ==
  /\ \A v \in Marker :
       Cardinality({ i \in DOMAIN MatchArms : MatchArms[i].pat = v }) = 1
  /\ \A i \in DOMAIN MatchArms : MatchArms[i].pat # "_"
  /\ \A v \in Marker : MatchArms[match_arm(v)].pat = v

(* C1: string_marker returns a non-empty string for every variant of Marker, *)
(* and so does every string_marker call that was made.                       *)
C1_LabelNonEmpty ==
  /\ AllLabelsNonEmpty
  /\ \A i \in StringMarkerCalls : Len(calls[i].ret) > 0

C1_Witness ==
  \E i \in StringMarkerCalls : calls[i].arg = "Date" /\ Len(calls[i].ret) = 4

(* C2: the labels of FilePath, WebLink, IPAddress, Log and Traceback are     *)
(* exactly "FILEPATH", "WEBLINK", "IP ADDRESS", "LLLOG" and "TTTRACEBACK".   *)
C2_LiteralLabels ==
  /\ string_marker("FilePath") = <<"F", "I", "L", "E", "P", "A", "T", "H">>
  /\ string_marker("WebLink") = <<"W", "E", "B", "L", "I", "N", "K">>
  /\ string_marker("IPAddress") = <<"I", "P", " ", "A", "D", "D", "R", "E", "S", "S">>
  /\ string_marker("Log") = <<"L", "L", "L", "O", "G">>
  /\ string_marker("Traceback") = <<"T", "T", "T", "R", "A", "C", "E", "B", "A", "C", "K">>
  /\ \A i \in StringMarkerCalls :
       calls[i].arg = "IPAddress" => Len(calls[i].ret) = 10 /\ calls[i].ret[3] = " "

C2_Witness ==
  /\ Logged("IPAddress", <<"I", "P", " ", "A", "D", "D", "R", "E", "S", "S">>)
  /\ Logged("Log", <<"L", "L", "L", "O", "G">>)

(* C3: every call of all_markers returns the empty sequence, whatever the    *)
(* enumeration declares; no declared variant is an element of its result.    *)
C3_AllMarkersEmpty ==
  /\ Len(all_markers) = 0
  /\ \A v \in Marker : \A k \in DOMAIN all_markers : all_markers[k] # v
  /\ \A i \in AllMarkersCalls : calls[i].ret = << >>

C3_Witness ==
  /\ Len(calls) = 2
  /\ calls[1].op = "string_marker"
  /\ calls[2].op = "all_markers"
  /\ Len(calls[2].ret) = 0
  /\ Cardinality(Marker) > 0

(* C4 as stated: Marker declares exactly 26 variants, and the label mapping  *)
(* is defined over exactly those.                                            *)
(* Stated of every string_marker call made: its argument belongs to such an  *)
(* enumeration.                                                              *)
C4_Original ==
  \A i \in StringMarkerCalls :
    /\ calls[i].arg \in Marker
    /\ Len(MarkerVariants) = 26
    /\ Cardinality(Marker) = 26
    /\ ArmPatterns = Marker

(* C4 amended: Marker declares exactly 27 distinct variants, and the label   *)
(* mapping is defined over those 27 variants and no others.                  *)
C4_VariantCount ==
  /\ Len(MarkerVariants) = 27
  /\ Cardinality(Marker) = 27
  /\ ArmPatterns = Marker
  /\ \A i \in StringMarkerCalls : calls[i].arg \in Marker

C4_Witness ==
  \E i \in StringMarkerCalls : calls[i].arg = MarkerVariants[27] /\ Len(calls[i].ret) > 0

(* C5: the variants with an explicit arm in string_marker are exactly the    *)
(* declared variants, each variant has exactly one arm, and no variant gets  *)
(* its label from a wildcard arm.                                            *)
C5_Exhaustive ==
  /\ ArmPatterns = Marker
  /\ EachVariantSelectsItsArm
  /\ \A i \in StringMarkerCalls : MatchArms[match_arm(calls[i].arg)].pat = calls[i].arg

C5_Witness ==
  /\ Len(calls) = 2
  /\ calls[1].op = "string_marker" /\ calls[1].arg = "Attachment"
  /\ calls[2].op = "string_marker" /\ calls[2].arg = "WebLink"
  /\ match_arm(calls[1].arg) = 1
  /\ match_arm(calls[2].arg) = Len(MatchArms)

(* C6: two different variants never have the same label.                     *)
C6_LabelsDistinct ==
  /\ AllLabelsDistinct
  /\ \A i, j \in StringMarkerCalls : calls[i].arg # calls[j].arg => calls[i].ret # calls[j].ret

C6_Witness ==
  /\ Len(calls) = 2
  /\ calls[1].op = "string_marker" /\ calls[1].arg = "ClassName"
  /\ calls[2].op = "string_marker" /\ calls[2].arg = "SimpleClassName"
  /\ calls[1].ret # calls[2].ret

(* the variants whose label is not a single uppercase A-Z token *)
Irregular == { v \in Marker : ~IsUpperToken(string_marker(v)) }

(* C7 as stated: two labels have an embedded space or unconventional casing, *)
(* one of them "IP ADDRESS"; every other label is one uppercase A-Z token.   *)
(* Stated of every call that returns a label which is not such a token: it   *)
(* is the label of one of two such variants, IPAddress among them.           *)
C7_Original ==
  \A i \in StringMarkerCalls :
    ~IsUpperToken(calls[i].ret) =>
      /\ calls[i].arg \in Irregular
      /\ Cardinality(Irregular) = 2
      /\ "IPAddress" \in Irregular

(* C7 amended: exactly one label, "IP ADDRESS", is not a single uppercase    *)
(* token: it has one embedded space and otherwise only letters A-Z; each of  *)
(* the other 26 labels is one contiguous token of letters A-Z.               *)
C7_OneIrregularLabel ==
  /\ Irregular = {"IPAddress"}
  /\ LET s == string_marker("IPAddress")
     IN  /\ Cardinality({ i \in 1..Len(s) : s[i] = " " }) = 1
         /\ \A i \in 1..Len(s) : s[i] = " " \/ s[i] \in UpperLetters
  /\ Cardinality(Marker \ Irregular) = 26
  /\ \A i \in StringMarkerCalls :
       calls[i].arg # "IPAddress" => IsUpperToken(calls[i].ret)

C7_Witness ==
  /\ \E i \in StringMarkerCalls : calls[i].arg = "IPAddress" /\ HasSpace(calls[i].ret)
  /\ \E i \in StringMarkerCalls : calls[i].arg = "GithubLink" /\ IsUpperToken(calls[i].ret)

(* C9: under every interleaving of the callers, a finished string_marker     *)
(* call holds the label of its own argument and a finished all_markers call  *)
(* holds the empty sequence, as each would when run alone; the values a      *)
(* call in progress holds are those of its own argument.                     *)
C9_Isolation ==
  \A p \in Callers :
    /\ pc[p] = "sm_into" => lit[p] = match_self(self[p])
    /\ pc[p] = "sm_done" => ret[p] = string_marker(self[p])
    /\ pc[p] = "am_done" => ret[p] = << >>

C9_Witness ==
  /\ pc[1] = "sm_done" /\ self[1] = "Log"
  /\ pc[2] = "sm_done" /\ self[2] = "Traceback"
  /\ ret[1] = <<"L", "L", "L", "O", "G">>
  /\ ret[2] = <<"T", "T", "T", "R", "A", "C", "E", "B", "A", "C", "K">>

(* C10: no label is a proper prefix of the label of a different variant.     *)
C10_PrefixFree ==
  /\ NoLabelPrefixesAnother
  /\ \A i, j \in StringMarkerCalls :
       calls[i].arg # calls[j].arg => ~IsProperPrefix(calls[i].ret, calls[j].ret)

C10_Witness ==
  /\ Len(calls) = 2
  /\ calls[1].op = "string_marker" /\ calls[1].arg = "Attachment"
  /\ calls[2].op = "string_marker" /\ calls[2].arg = "ImageAttachment"
  /\ IsProperSuffix(calls[1].ret, calls[2].ret)
  /\ ~IsProperPrefix(calls[1].ret, calls[2].ret)

====
